---- MODULE Spec2Model ----
(***************************************************************************)
(* Model of the CO2 changepoint analysis: changepoint_analysis.py          *)
(* (detect_changepoints, evaluate_changepoints, analyze_changepoints,      *)
(* generate_summary) and the workflow of main.py.                          *)
(*                                                                         *)
(* Arrays (a series, the time vector) are functions on 0..L-1, as the      *)
(* source indexes them; Python lists are sequences.  Samples are integers, *)
(* so every comparison the code makes on floats is exact here.             *)
(***************************************************************************)
EXTENDS Integers, Sequences, FiniteSets, TLC

VARIABLES
    pc,               \* main: the stage about to run, "done" or "failed"
    failed_at,        \* main: the stage whose call raised, "" if none
    input_file,       \* ./data/atm_co2_ppmv.csv: Missing, or its columns t and series
    var_of_one_nan,   \* scipy build: variance of a 1-sample window is NaN (old) or 0 (new)
    time,             \* main: time vector, None before load
    series_data,      \* main: sequence of series, None before load
    results,          \* main: list of evaluation records, None before analyze
    all_changepoints, \* main: changepoints recomputed for the grid figure
    summary,          \* main: rows of the summary, None before generate_summary
    artifacts,        \* files written to the results directory, in writing order
    d_series,         \* detect_changepoints: argument series
    d_K,              \* detect_changepoints: argument n_changepoints
    d_pc,             \* "call", "returned" or "raised"
    d_result,         \* detect_changepoints: returned list
    e_series,         \* evaluate_changepoints: argument series
    e_cps,            \* evaluate_changepoints: argument changepoints
    e_window,         \* evaluate_changepoints: argument window
    e_pc,             \* "call" or "returned"
    e_windows,        \* the (before, after) slices taken, one pair per changepoint
    e_scores          \* evaluate_changepoints: returned list

mainVars == <<pc, failed_at, input_file, time, series_data, results,
              all_changepoints, summary, artifacts>>
detVars == <<d_series, d_K, d_pc, d_result>>
evalVars == <<e_series, e_cps, e_window, e_pc, e_windows, e_scores>>
vars == <<mainVars, detVars, evalVars, var_of_one_nan>>

\* a variable of main before its assignment is None; after it, Some(value)
None == <<>>
Some(v) == <<v>>
Val(o) == o[1]

\* no readable input file
Missing == [exists |-> FALSE, t |-> <<>>, cols |-> <<>>]

----------------------------------------------------------------------------
(* Bounds of the model *)

MaxLen == 23        \* longest series handed to detect_changepoints alone
MaxK == 2           \* largest n_changepoints handed to detect_changepoints alone
MaxStep == 2        \* largest level shift of a generated series
MaxHalf == 50       \* largest n of the n + n single-shift series

----------------------------------------------------------------------------
(* Generic helpers *)

Min(a, b) == IF a < b THEN a ELSE b
Max(a, b) == IF a > b THEN a ELSE b
Abs(a) == IF a < 0 THEN -a ELSE a

len(a) == Cardinality(DOMAIN a)

RECURSIVE SumRange(_, _, _)
SumRange(f, lo, hi) == IF lo >= hi THEN 0 ELSE f[lo] + SumRange(f, lo + 1, hi)

RECURSIVE SumSqRange(_, _, _)
SumSqRange(f, lo, hi) ==
    IF lo >= hi THEN 0 ELSE f[lo] * f[lo] + SumSqRange(f, lo + 1, hi)

SortedSeq(S) ==
    [i \in 1..Cardinality(S) |->
        CHOOSE x \in S : Cardinality({y \in S : y < x}) = i - 1]

----------------------------------------------------------------------------
(* detect_changepoints: rpt.Window(width=5, model="l2").fit(series),       *)
(* predict(n_bkps), result[:-1].  The estimator is the ruptures Window     *)
(* search with its default jump and min_size.                              *)

Width == 5
Jump == 5
MinSize == 2
DefaultNChangepoints == 5

\* Window.__init__: self.width = 2 * (width // 2)
EvenWidth == 2 * (Width \div 2)
HalfWidth == EvenWidth \div 2

\* Window.fit: inds = arange(n, step=jump) with the borders deleted
Inds(n) ==
    SortedSeq({k \in 0..(n - 1) :
        /\ k % Jump = 0
        /\ k >= HalfWidth
        /\ k < n - HalfWidth})

\* CostL2.error(start, end) = var(signal[start:end]) * (end - start), here
\* multiplied by (end - start): (end-start) * sum x^2 - (sum x)^2
ScaledCost(series, start, end) ==
    (end - start) * SumSqRange(series, start, end)
        - SumRange(series, start, end) * SumRange(series, start, end)

\* Window.fit: gain = error(start, end) - (error(start, k) + error(k, end)),
\* here multiplied by the even width (the halves are half as long)
Gain(series, k) ==
    LET start == k - HalfWidth
        end == k + HalfWidth
    IN  ScaledCost(series, start, end)
            - 2 * (ScaledCost(series, start, k) + ScaledCost(series, k, end))

Score(series) ==
    LET inds == Inds(len(series))
    IN  [p \in 1..Len(inds) |-> Gain(series, inds[p])]

\* Window._seg: order = max(max(width, 2 * min_size) // (2 * jump), 1)
PeakOrder == Max(Max(EvenWidth, 2 * MinSize) \div (2 * Jump), 1)

\* scipy.signal.argrelmax(score, order, mode="wrap"): strictly greater than
\* the neighbours at distance 1..order, indices taken modulo the length
Wrap(p, m) == ((p - 1) % m) + 1

ArgRelMax(score) ==
    LET m == Len(score)
    IN  {p \in 1..m :
            \A shift \in 1..PeakOrder :
                /\ score[p] > score[Wrap(p + shift, m)]
                /\ score[p] > score[Wrap(p - shift, m)]}

\* sorted(zip(gains, peak_inds)): ascending by gain, then by index
PeakBefore(score, inds, p, q) ==
    \/ score[p] < score[q]
    \/ score[p] = score[q] /\ inds[p] < inds[q]

SortedPeaks(series) ==
    LET inds == Inds(len(series))
        score == Score(series)
        peaks == ArgRelMax(score)
    IN  [i \in 1..Cardinality(peaks) |->
            inds[CHOOSE p \in peaks :
                Cardinality({q \in peaks : PeakBefore(score, inds, q, p)}) = i - 1]]

\* Window._seg with n_bkps: pop the best remaining peak while fewer than
\* n_bkps were taken; bkps starts as [n_samples] and is kept sorted
Seg(series, n_bkps) ==
    LET peak_inds == SortedPeaks(series)
        taken == Min(n_bkps, Len(peak_inds))
        chosen == {peak_inds[i] : i \in (Len(peak_inds) - taken + 1)..Len(peak_inds)}
    IN  SortedSeq(chosen \cup {len(series)})

\* ruptures.utils.sanity_check(n_samples, n_bkps, jump, min_size)
CeilDiv(a, b) == (a + b - 1) \div b

SanityCheck(n_samples, n_bkps) ==
    /\ n_bkps <= n_samples \div Jump
    /\ n_bkps * CeilDiv(MinSize, Jump) * Jump + MinSize <= n_samples

\* Window.predict raises BadSegmentationParameters
PredictRaises(series, n_bkps) == ~SanityCheck(len(series), n_bkps)

Predict(series, n_bkps) == Seg(series, n_bkps)

\* result[:-1]
DropLast(result) == SubSeq(result, 1, Len(result) - 1)

\* the detector returning the library's list as it is, sentinel included
detect_keep_sentinel(series, n_changepoints) == Predict(series, n_changepoints)

\* the detector dropping the first breakpoint instead of the last
detect_drop_first(series, n_changepoints) == Tail(Predict(series, n_changepoints))

detect_changepoints(series, n_changepoints) ==
    DropLast(Predict(series, n_changepoints))

----------------------------------------------------------------------------
(* Generated series *)

\* a staircase: level 0, raised by h1 from index p1 on and by h2 from p2 on
Stair(L, p1, h1, p2, h2) ==
    [i \in 0..(L - 1) |->
        (IF i >= p1 THEN h1 ELSE 0) + (IF i >= p2 THEN h2 ELSE 0)]

\* n samples of a followed by n samples of b
Shift(n, a, b) == [i \in 0..(2 * n - 1) |-> IF i < n THEN a ELSE b]

----------------------------------------------------------------------------
(* Specification of detect_changepoints called alone *)

MainIdle ==
    /\ pc = "idle" /\ failed_at = "" /\ input_file = Missing
    /\ time = None /\ series_data = None /\ results = None
    /\ all_changepoints = None /\ summary = None /\ artifacts = <<>>

EvalIdle ==
    /\ e_series = <<>> /\ e_cps = <<>> /\ e_window = 0 /\ e_pc = "idle"
    /\ e_windows = <<>> /\ e_scores = <<>>

DetIdle == d_series = <<>> /\ d_K = 0 /\ d_pc = "idle" /\ d_result = <<>>

InitDetect ==
    /\ MainIdle /\ EvalIdle /\ var_of_one_nan = FALSE
    /\ \E L \in 1..MaxLen :
       \E p1 \in 0..L : \E p2 \in p1..L :
       \E h1 \in 1..MaxStep : \E h2 \in 1..MaxStep :
           d_series = Stair(L, p1, h1, p2, h2)
    /\ d_K \in 0..MaxK
    /\ d_pc = "call"
    /\ d_result = <<>>

DetectReturns ==
    /\ d_pc = "call"
    /\ ~PredictRaises(d_series, d_K)
    /\ d_result' = detect_changepoints(d_series, d_K)
    /\ d_pc' = "returned"
    /\ UNCHANGED <<d_series, d_K, mainVars, evalVars, var_of_one_nan>>

DetectRaises ==
    /\ d_pc = "call"
    /\ PredictRaises(d_series, d_K)
    /\ d_pc' = "raised"
    /\ UNCHANGED <<d_series, d_K, d_result, mainVars, evalVars, var_of_one_nan>>

NextDetect == DetectReturns \/ DetectRaises

SpecDetect == InitDetect /\ [][NextDetect]_vars

\* the n + n single-shift series, K = 1
InitShift ==
    /\ MainIdle /\ EvalIdle /\ var_of_one_nan = FALSE
    /\ \E n \in 1..MaxHalf : \E a \in 0..MaxStep : \E b \in 0..MaxStep :
           a # b /\ d_series = Shift(n, a, b)
    /\ d_K = 1
    /\ d_pc = "call"
    /\ d_result = <<>>

SpecShift == InitShift /\ [][NextDetect]_vars

----------------------------------------------------------------------------
(* Numbers that are not integers: NaN, +-infinity, fractions, and signed   *)
(* square roots of fractions (a t-statistic, a standard deviation)         *)

RECURSIVE GCD(_, _)
GCD(a, b) == IF b = 0 THEN a ELSE GCD(b, a % b)

Sign(a) == IF a < 0 THEN -1 ELSE IF a > 0 THEN 1 ELSE 0

NaN == [k |-> "nan"]
Inf(s) == [k |-> "inf", s |-> s]
\* n / d with d > 0, in lowest terms
Rat(n, d) ==
    LET g == GCD(Abs(n), d)
    IN  [k |-> "rat", n |-> n \div g, d |-> d \div g]
\* s * sqrt(n / d) with n >= 0, d > 0, s the sign
Root(s, n, d) ==
    IF n = 0 THEN Rat(0, 1)
    ELSE LET g == GCD(n, d)
         IN  [k |-> "root", s |-> s, n |-> n \div g, d |-> d \div g]

IsNaN(x) == x.k = "nan"
IsInf(x) == x.k = "inf"
IsFinite(x) == ~IsNaN(x) /\ ~IsInf(x)

----------------------------------------------------------------------------
(* evaluate_changepoints *)

DefaultWindow == 3

\* Python's series[start:stop] on an array of length L: the indices taken.
\* A negative bound counts from the end; both bounds are clamped to 0..L.
SliceBound(i, L) == IF i < 0 THEN Max(i + L, 0) ELSE Min(i, L)

SliceIdx(L, start, stop) ==
    LET lo == SliceBound(start, L)
        hi == SliceBound(stop, L)
    IN  [i \in 1..Max(hi - lo, 0) |-> lo + i - 1]

Take(series, idx) == [i \in 1..Len(idx) |-> series[idx[i]]]

\* before = series[cp-window:cp], without the clamp at the series start
BeforeIdxUnclamped(series, cp, window) ==
    SliceIdx(len(series), cp - window, cp)

\* before = series[max(0, cp-window):cp]
BeforeIdx(series, cp, window) ==
    SliceIdx(len(series), Max(0, cp - window), cp)

\* after = series[cp:min(len(series), cp+window)]
AfterIdx(series, cp, window) ==
    SliceIdx(len(series), cp, Min(len(series), cp + window))

RECURSIVE SeqSum(_)
SeqSum(s) == IF s = <<>> THEN 0 ELSE Head(s) + SeqSum(Tail(s))

RECURSIVE SeqSumSq(_)
SeqSumSq(s) == IF s = <<>> THEN 0 ELSE Head(s) * Head(s) + SeqSumSq(Tail(s))

\* n * (sum of squared deviations from the mean) of a sample
ScaledSS(s) == Len(s) * SeqSumSq(s) - SeqSum(s) * SeqSum(s)

\* scipy.stats.ttest_ind(a, b), equal_var=True: the pooled-variance t-test.
\*   t = (mean(a) - mean(b)) / sqrt(svar * (1/n1 + 1/n2)),
\*   svar = ((n1-1) var(a) + (n2-1) var(b)) / (n1 + n2 - 2)
\* An empty sample gives NaN; the variance (ddof=1) of a single observation
\* is NaN in builds that do not special-case it (one_nan) and counts as 0 in
\* those that do; 0/0 is NaN and x/0 is +-inf.
TStatistic(a, b, one_nan) ==
    LET n1 == Len(a)
        n2 == Len(b)
        df == n1 + n2 - 2
        D == SeqSum(a) * n2 - SeqSum(b) * n1
        Q == ScaledSS(a) * n2 + ScaledSS(b) * n1
    IN  IF n1 = 0 \/ n2 = 0 THEN NaN
        ELSE IF one_nan /\ (n1 = 1 \/ n2 = 1) THEN NaN
        ELSE IF df = 0 THEN NaN
        ELSE IF Q = 0 THEN (IF D = 0 THEN NaN ELSE Inf(Sign(D)))
        ELSE Root(Sign(D), D * D * df, Q * (n1 + n2))

\* the two-sided p-value of t with df degrees of freedom: NaN for NaN, 0 for
\* an infinite t, otherwise the tail probability, kept as a term
PValue(t, df) ==
    IF IsNaN(t) THEN NaN
    ELSE IF IsInf(t) THEN Rat(0, 1)
    ELSE [k |-> "pvalue", t |-> t, df |-> df]

ttest_ind(a, b, one_nan) ==
    LET t == TStatistic(a, b, one_nan)
    IN  <<t, PValue(t, Len(a) + Len(b) - 2)>>

\* the slices of one loop iteration, the start of the first one not clamped
WindowsUnclamped(series, cp, window) ==
    [before |-> BeforeIdxUnclamped(series, cp, window),
     after |-> AfterIdx(series, cp, window)]

\* the slices of one loop iteration
Windows(series, cp, window) ==
    [before |-> BeforeIdx(series, cp, window),
     after |-> AfterIdx(series, cp, window)]

AllWindows(series, changepoints, window) ==
    [j \in 1..Len(changepoints) |-> Windows(series, changepoints[j], window)]

\* the scores collected in reverse order (scores.insert(0, ...))
evaluate_reversed(series, changepoints, window, one_nan) ==
    [j \in 1..Len(changepoints) |->
        LET w == Windows(series, changepoints[Len(changepoints) + 1 - j], window)
        IN  ttest_ind(Take(series, w.before), Take(series, w.after), one_nan)]

evaluate_changepoints(series, changepoints, window, one_nan) ==
    [j \in 1..Len(changepoints) |->
        LET w == Windows(series, changepoints[j], window)
        IN  ttest_ind(Take(series, w.before), Take(series, w.after), one_nan)]

----------------------------------------------------------------------------
(* Specification of evaluate_changepoints called alone *)

MaxEvalLen == 6     \* longest series handed to evaluate_changepoints alone
Levels == {0, 1}    \* the sample values of such a series
MaxCps == 2         \* longest changepoint list handed to it
MaxWindow == 3      \* largest window handed to it

SeqsUpTo(S, n) == UNION {[1..m -> S] : m \in 0..n}

InitEval ==
    /\ MainIdle /\ DetIdle
    /\ var_of_one_nan \in BOOLEAN
    /\ \E L \in 1..MaxEvalLen :
        /\ e_series \in [0..(L - 1) -> Levels]
        /\ e_cps \in SeqsUpTo(0..(L - 1), MaxCps)
    /\ e_window \in 1..MaxWindow
    /\ e_pc = "call"
    /\ e_windows = <<>>
    /\ e_scores = <<>>

Evaluate ==
    /\ e_pc = "call"
    /\ e_windows' = AllWindows(e_series, e_cps, e_window)
    /\ e_scores' = evaluate_changepoints(e_series, e_cps, e_window, var_of_one_nan)
    /\ e_pc' = "returned"
    /\ UNCHANGED <<e_series, e_cps, e_window, mainVars, detVars, var_of_one_nan>>

NextEval == Evaluate

SpecEval == InitEval /\ [][NextEval]_vars

----------------------------------------------------------------------------
(* Rational arithmetic for the aggregates *)

RatAdd(x, y) == Rat(x.n * y.d + y.n * x.d, x.d * y.d)
RatSub(x, y) == Rat(x.n * y.d - y.n * x.d, x.d * y.d)
RatMul(x, y) == Rat(x.n * y.n, x.d * y.d)
RatDivInt(x, m) == Rat(x.n, x.d * m)

RECURSIVE RatSum(_)
RatSum(xs) == IF xs = <<>> THEN Rat(0, 1) ELSE RatAdd(Head(xs), RatSum(Tail(xs)))

RECURSIVE RatSumSq(_)
RatSumSq(xs) ==
    IF xs = <<>> THEN Rat(0, 1)
    ELSE RatAdd(RatMul(Head(xs), Head(xs)), RatSumSq(Tail(xs)))

AllRat(xs) == \A i \in 1..Len(xs) : xs[i].k = "rat"

\* pandas aggregations skip NaN
SkipNaN(xs) == SelectSeq(xs, LAMBDA x : ~IsNaN(x))

\* 'mean': sum / count of the non-NaN values; a mean of values that are not
\* all fractions is kept as a term
Mean(vals) ==
    LET xs == SkipNaN(vals)
    IN  IF xs = <<>> THEN NaN
        ELSE IF Len(xs) = 1 THEN xs[1]
        ELSE IF AllRat(xs) THEN RatDivInt(RatSum(xs), Len(xs))
        ELSE [k |-> "mean", of |-> xs]

\* the population standard deviation (ddof=0) instead of the sample one
StdPopulation(vals) ==
    LET xs == SkipNaN(vals)
        n == Len(xs)
    IN  IF n = 0 THEN NaN
        ELSE IF AllRat(xs)
        THEN LET var == RatDivInt(
                     RatSub(RatSumSq(xs), RatDivInt(RatMul(RatSum(xs), RatSum(xs)), n)),
                     n)
             IN  Root(1, var.n, var.d)
        ELSE [k |-> "std", of |-> xs]

\* 'std': the sample standard deviation (ddof=1) of the non-NaN values, NaN
\* for fewer than two of them
Std(vals) ==
    LET xs == SkipNaN(vals)
        n == Len(xs)
    IN  IF n < 2 THEN NaN
        ELSE IF AllRat(xs)
        THEN LET var == RatDivInt(
                     RatSub(RatSumSq(xs), RatDivInt(RatMul(RatSum(xs), RatSum(xs)), n)),
                     n - 1)
             IN  Root(1, var.n, var.d)
        ELSE [k |-> "std", of |-> xs]

----------------------------------------------------------------------------
(* analyze_changepoints *)

\* str(n) as character codes
RECURSIVE Decimal(_)
Decimal(n) ==
    IF n < 10 THEN <<48 + n>> ELSE Decimal(n \div 10) \o <<48 + (n % 10)>>

\* f'p{i+1}' for the 0-based position i, as character codes ('p' is 112)
Label(i) == <<112>> \o Decimal(i + 1)

\* the record numbering the changepoint by its 0-based position
RecordZeroBased(tm, series, i, j, cp, score) ==
    [Series |-> Label(i),
     Changepoint |-> j,
     Time |-> Rat(tm[cp], 1),
     CO2_Concentration |-> Rat(series[cp], 1),
     t_statistic |-> score[1],
     p_value |-> score[2]]

\* the record of the j-th (0-based) changepoint cp of the i-th (0-based) series
Record(tm, series, i, j, cp, score) ==
    [Series |-> Label(i),
     Changepoint |-> j + 1,
     Time |-> Rat(tm[cp], 1),
     CO2_Concentration |-> Rat(series[cp], 1),
     t_statistic |-> score[1],
     p_value |-> score[2]]

\* the inner loop: one record per (changepoint, score) pair of series i
SeriesRecords(tm, series, i, one_nan) ==
    LET changepoints == detect_changepoints(series, DefaultNChangepoints)
        scores == evaluate_changepoints(series, changepoints, DefaultWindow, one_nan)
    IN  [j \in 1..Min(Len(changepoints), Len(scores)) |->
            Record(tm, series, i, j - 1, changepoints[j], scores[j])]

\* the outer loop over series_data[0..n-1], appending to results
RECURSIVE AnalyzeUpTo(_, _, _, _)
AnalyzeUpTo(tm, sd, n, one_nan) ==
    IF n = 0 THEN <<>>
    ELSE AnalyzeUpTo(tm, sd, n - 1, one_nan)
            \o SeriesRecords(tm, sd[n], n - 1, one_nan)

analyze_changepoints(tm, sd, one_nan) == AnalyzeUpTo(tm, sd, Len(sd), one_nan)

\* detect_changepoints raises for some series
AnalyzeRaises(sd) ==
    \E n \in 1..Len(sd) : PredictRaises(sd[n], DefaultNChangepoints)

----------------------------------------------------------------------------
(* generate_summary *)

\* string comparison of two labels
RECURSIVE LexLess(_, _)
LexLess(a, b) ==
    IF b = <<>> THEN FALSE
    ELSE IF a = <<>> THEN TRUE
    ELSE IF Head(a) # Head(b) THEN Head(a) < Head(b)
    ELSE LexLess(Tail(a), Tail(b))

Keys(recs) == {recs[r].Series : r \in 1..Len(recs)}

\* groupby('Series'): the group keys, sorted as strings
SortedKeys(recs) ==
    LET K == Keys(recs)
    IN  [i \in 1..Cardinality(K) |->
            CHOOSE x \in K : Cardinality({y \in K : LexLess(y, x)}) = i - 1]

Group(recs, key) == SelectSeq(recs, LAMBDA r : r.Series = key)

Column(recs, field) == [r \in 1..Len(recs) |-> recs[r][field]]

SummaryRow(recs, key) ==
    LET g == Group(recs, key)
    IN  [Series |-> key,
         Time_mean |-> Mean(Column(g, "Time")),
         Time_std |-> Std(Column(g, "Time")),
         CO2_Concentration_mean |-> Mean(Column(g, "CO2_Concentration")),
         CO2_Concentration_std |-> Std(Column(g, "CO2_Concentration")),
         t_statistic_mean |-> Mean(Column(g, "t_statistic")),
         t_statistic_std |-> Std(Column(g, "t_statistic")),
         p_value_mean |-> Mean(Column(g, "p_value")),
         p_value_std |-> Std(Column(g, "p_value"))]

\* pd.DataFrame([]).groupby('Series') raises KeyError
SummaryRaises(recs) == recs = <<>>

generate_summary(recs) ==
    LET keys == SortedKeys(recs)
    IN  [i \in 1..Len(keys) |-> SummaryRow(recs, keys[i])]

----------------------------------------------------------------------------
(* main *)

GridCells == 20

\* main with the record CSV written before the analysis
StagesSaveFirst ==
    <<"makedirs", "load_data", "plot_all_series", "save_results",
      "analyze_changepoints", "detect_all", "plot_results", "generate_summary",
      "save_summary", "print_summary">>

\* the statements of main, in the order it runs them
Stages ==
    <<"makedirs", "load_data", "plot_all_series", "analyze_changepoints",
      "save_results", "detect_all", "plot_results", "generate_summary",
      "save_summary", "print_summary">>

StageAfter(stage) ==
    LET i == CHOOSE k \in 1..Len(Stages) : Stages[k] = stage
    IN  IF i = Len(Stages) THEN "done" ELSE Stages[i + 1]

\* all_changepoints recomputed with one changepoint per series
RecomputeOne(sd) == [n \in 1..Len(sd) |-> detect_changepoints(sd[n], 1)]

\* all_changepoints = [detect_changepoints(series) for series in series_data]
RecomputeChangepoints(sd) ==
    [n \in 1..Len(sd) |-> detect_changepoints(sd[n], DefaultNChangepoints)]

Raise(stage) ==
    /\ pc' = "failed"
    /\ failed_at' = stage

Proceed(stage) ==
    /\ pc' = StageAfter(stage)
    /\ failed_at' = failed_at

MakeDirs ==
    /\ pc = "makedirs"
    /\ Proceed("makedirs")
    /\ UNCHANGED <<input_file, time, series_data, results, all_changepoints,
                   summary, artifacts, detVars, evalVars, var_of_one_nan>>

\* load_data: time = data['t'].values, series_data = the other columns
LoadData ==
    /\ pc = "load_data"
    /\ IF ~input_file.exists
       THEN /\ Raise("load_data")
            /\ UNCHANGED <<time, series_data>>
       ELSE /\ Proceed("load_data")
            /\ time' = Some(input_file.t)
            /\ series_data' = Some(input_file.cols)
    /\ UNCHANGED <<input_file, results, all_changepoints, summary, artifacts,
                   detVars, evalVars, var_of_one_nan>>

PlotAllSeries ==
    /\ pc = "plot_all_series"
    /\ Proceed("plot_all_series")
    /\ artifacts' = Append(artifacts, "all_series_plot.png")
    /\ UNCHANGED <<input_file, time, series_data, results, all_changepoints,
                   summary, detVars, evalVars, var_of_one_nan>>

\* the analysis with a failure of the detector caught and the run continued
AnalyzeSwallow ==
    /\ pc = "analyze_changepoints"
    /\ Proceed("analyze_changepoints")
    /\ results' = IF AnalyzeRaises(Val(series_data)) THEN Some(<<>>)
                  ELSE Some(analyze_changepoints(Val(time), Val(series_data),
                                                 var_of_one_nan))
    /\ UNCHANGED <<input_file, time, series_data, all_changepoints, summary,
                   artifacts, detVars, evalVars, var_of_one_nan>>

Analyze ==
    /\ pc = "analyze_changepoints"
    /\ IF AnalyzeRaises(Val(series_data))
       THEN /\ Raise("analyze_changepoints")
            /\ UNCHANGED results
       ELSE /\ Proceed("analyze_changepoints")
            /\ results' = Some(analyze_changepoints(Val(time), Val(series_data),
                                                    var_of_one_nan))
    /\ UNCHANGED <<input_file, time, series_data, all_changepoints, summary,
                   artifacts, detVars, evalVars, var_of_one_nan>>

SaveResults ==
    /\ pc = "save_results"
    /\ Proceed("save_results")
    /\ artifacts' = Append(artifacts, "changepoint_results.csv")
    /\ UNCHANGED <<input_file, time, series_data, results, all_changepoints,
                   summary, detVars, evalVars, var_of_one_nan>>

DetectAll ==
    /\ pc = "detect_all"
    /\ IF AnalyzeRaises(Val(series_data))
       THEN /\ Raise("detect_all")
            /\ UNCHANGED all_changepoints
       ELSE /\ Proceed("detect_all")
            /\ all_changepoints' = Some(RecomputeChangepoints(Val(series_data)))
    /\ UNCHANGED <<input_file, time, series_data, results, summary, artifacts,
                   detVars, evalVars, var_of_one_nan>>

\* plot_results: one of the 4 x 5 axes per series, then savefig
PlotResults ==
    /\ pc = "plot_results"
    /\ IF Len(Val(series_data)) > GridCells
       THEN /\ Raise("plot_results")
            /\ UNCHANGED artifacts
       ELSE /\ Proceed("plot_results")
            /\ artifacts' = Append(artifacts, "changepoint_detection_results.png")
    /\ UNCHANGED <<input_file, time, series_data, results, all_changepoints,
                   summary, detVars, evalVars, var_of_one_nan>>

GenerateSummary ==
    /\ pc = "generate_summary"
    /\ IF SummaryRaises(Val(results))
       THEN /\ Raise("generate_summary")
            /\ UNCHANGED summary
       ELSE /\ Proceed("generate_summary")
            /\ summary' = Some(generate_summary(Val(results)))
    /\ UNCHANGED <<input_file, time, series_data, results, all_changepoints,
                   artifacts, detVars, evalVars, var_of_one_nan>>

SaveSummary ==
    /\ pc = "save_summary"
    /\ Proceed("save_summary")
    /\ artifacts' = Append(artifacts, "changepoint_summary.csv")
    /\ UNCHANGED <<input_file, time, series_data, results, all_changepoints,
                   summary, detVars, evalVars, var_of_one_nan>>

PrintSummary ==
    /\ pc = "print_summary"
    /\ Proceed("print_summary")
    /\ UNCHANGED <<input_file, time, series_data, results, all_changepoints,
                   summary, artifacts, detVars, evalVars, var_of_one_nan>>

----------------------------------------------------------------------------
(* Input files *)

MaxSeries == 10     \* most series columns of an input file
MaxPattern == 2     \* the kinds of the series repeat with this period at most
MaxPipeLen == 27    \* most rows of an input file

\* the shortest series detect_changepoints accepts with its default count
FeasibleLen == DefaultNChangepoints * CeilDiv(MinSize, Jump) * Jump + MinSize

Kinds == {"flat", "step", "stairs", "noisy"}

\* a series of L samples: constant; one shift; two shifts of different
\* height; one shift under an alternating disturbance
SeriesOfKind(kind, L) ==
    CASE kind = "flat" -> [i \in 0..(L - 1) |-> 1]
      [] kind = "step" -> Stair(L, 2 * Jump, 2, L, 0)
      [] kind = "stairs" -> Stair(L, Jump, 1, 3 * Jump, 2)
      [] kind = "noisy" ->
            [i \in 0..(L - 1) |-> (i % 2) + (IF i >= 2 * Jump THEN 3 ELSE 0)]

\* timestamps, increasing
TimeVector(L) == [i \in 0..(L - 1) |-> 2 * i + 1]

InputFiles ==
    {Missing} \cup
    UNION {
        {[exists |-> TRUE,
          t |-> TimeVector(L),
          cols |-> [n \in 1..N |-> SeriesOfKind(pat[((n - 1) % P) + 1], L)]] :
            pat \in [1..P -> Kinds]} :
        <<L, N, P>> \in ((FeasibleLen - 1)..MaxPipeLen)
                            \X (1..MaxSeries) \X (1..MaxPattern)}

Init ==
    /\ DetIdle /\ EvalIdle
    /\ var_of_one_nan \in BOOLEAN
    /\ input_file \in InputFiles
    /\ pc = "makedirs"
    /\ failed_at = ""
    /\ time = None
    /\ series_data = None
    /\ results = None
    /\ all_changepoints = None
    /\ summary = None
    /\ artifacts = <<>>

Next ==
    \/ MakeDirs
    \/ LoadData
    \/ PlotAllSeries
    \/ Analyze
    \/ SaveResults
    \/ DetectAll
    \/ PlotResults
    \/ GenerateSummary
    \/ SaveSummary
    \/ PrintSummary

Spec == Init /\ [][Next]_vars

----------------------------------------------------------------------------
(* Claims about detect_changepoints *)

StrictlyIncreasing(s) == \A i \in 1..(Len(s) - 1) : s[i] < s[i + 1]

InRange(s, L) == \A i \in 1..Len(s) : 0 <= s[i] /\ s[i] < L

\* C1 as stated: whenever detect_changepoints(series, K) returns (K is
\* feasible), it returns exactly K strictly increasing indices in [0, L).
C1_ExactlyK ==
    d_pc = "returned" =>
        /\ Len(d_result) = d_K
        /\ StrictlyIncreasing(d_result)
        /\ InRange(d_result, len(d_series))

\* C1 amended: detect_changepoints(series, K) returns min(K, number of strict
\* peaks of the window score) indices, so at most K and exactly K when the
\* score has K peaks; they are strictly increasing and each in [0, L): the
\* sentinel L is never part of the result.
C1_AtMostK ==
    d_pc = "returned" =>
        /\ Len(d_result) = Min(d_K, Cardinality(ArgRelMax(Score(d_series))))
        /\ Len(d_result) <= d_K
        /\ StrictlyIncreasing(d_result)
        /\ InRange(d_result, len(d_series))

C1_Witness ==
    /\ d_pc = "returned"
    /\ d_K = 2
    /\ Len(d_result) = 2
    /\ d_result[1] < d_result[2]

HalfLen == len(d_series) \div 2

\* C7 as stated: for n samples of one value followed by n of another and
\* K = 1, the detector returns one index within 3 positions of n.
C7_AnyShift ==
    d_pc = "returned" =>
        /\ Len(d_result) = 1
        /\ Abs(d_result[1] - HalfLen) <= 3

\* C7 amended: for n samples of one value followed by n of another and K = 1,
\* the detector returns one index within 3 (indeed within 1) of n when n >= 9
\* and n is within 1 of a multiple of 5 (as n = 50 is); for every other n it
\* returns no index.
C7_ShiftNearGrid ==
    d_pc = "returned" =>
        IF HalfLen >= 9 /\ HalfLen % 5 \in {0, 1, 4}
        THEN /\ Len(d_result) = 1
             /\ Abs(d_result[1] - HalfLen) <= 1
             /\ d_result[1] % 5 = 0
        ELSE d_result = <<>>

C7_Witness ==
    /\ d_pc = "returned"
    /\ HalfLen = 50
    /\ d_series[0] = 0 /\ d_series[50] # 0
    /\ d_result = <<50>>

----------------------------------------------------------------------------
(* Claims about evaluate_changepoints *)

\* C2: for every window w >= 1 and changepoint cp in 0..L-1 the two slices
\* are the indices max(0, cp-w) .. cp-1 (min(w, cp) of them) and
\* cp .. min(L, cp+w)-1 (min(w, L-cp) of them): adjacent, inside the series,
\* each on its own side of cp.
C2_Windows ==
    e_pc = "returned" =>
        /\ Len(e_windows) = Len(e_cps)
        /\ \A j \in 1..Len(e_cps) :
            LET cp == e_cps[j]
                L == len(e_series)
                before == e_windows[j].before
                after == e_windows[j].after
            IN  /\ Len(before) = Min(e_window, cp)
                /\ Len(after) = Min(e_window, L - cp)
                /\ \A i \in 1..Len(before) :
                       before[i] = cp - Len(before) + i - 1
                /\ \A i \in 1..Len(after) : after[i] = cp + i - 1
                /\ \A i \in 1..Len(before) : 0 <= before[i] /\ before[i] < cp
                /\ \A i \in 1..Len(after) : cp <= after[i] /\ after[i] < L

C2_Witness ==
    /\ e_pc = "returned"
    /\ Len(e_cps) = 2
    /\ e_cps[1] - e_window < 0
    /\ Len(e_windows[1].before) = e_cps[1]
    /\ e_cps[1] > 0
    /\ e_cps[2] + e_window > len(e_series)
    /\ Len(e_windows[2].after) = len(e_series) - e_cps[2]

\* the samples of e_series at lo .. hi-1
SamplesOf(lo, hi) == {e_series[i] : i \in lo..(hi - 1)}

\* C8 as stated: one (t, p) pair per changepoint, and the t-statistic is NaN
\* whenever a window is degenerate and finite when both windows are
\* non-degenerate.  An empty window is degenerate and a window of two samples
\* or more is not, whichever way a one-sample window is counted.
C8_FiniteOrNaN ==
    e_pc = "returned" =>
        /\ Len(e_scores) = Len(e_cps)
        /\ \A j \in 1..Len(e_cps) :
            LET cp == e_cps[j]
                nb == Min(e_window, cp)
                na == Min(e_window, len(e_series) - cp)
                t == e_scores[j][1]
            IN  /\ (nb = 0 \/ na = 0) => IsNaN(t)
                /\ (nb >= 2 /\ na >= 2) => IsFinite(t)

\* C8 amended: evaluate_changepoints does not fail and returns one (t, p)
\* pair per changepoint, in the order of the list; the t-statistic is NaN
\* whenever a window is empty or all samples of the two windows are equal (a
\* flat series), infinite when both windows have two samples or more and are
\* constant at different values, and finite when both have two samples or
\* more and one of them is not constant; the p-value is NaN exactly when the
\* t-statistic is.
C8_ByWindows ==
    e_pc = "returned" =>
        /\ Len(e_scores) = Len(e_cps)
        /\ \A j \in 1..Len(e_cps) :
            LET cp == e_cps[j]
                L == len(e_series)
                nb == Min(e_window, cp)
                na == Min(e_window, L - cp)
                B == SamplesOf(cp - nb, cp)
                A == SamplesOf(cp, cp + na)
                t == e_scores[j][1]
                p == e_scores[j][2]
            IN  /\ (nb = 0 \/ na = 0) => IsNaN(t)
                /\ Cardinality(B \cup A) = 1 => IsNaN(t)
                /\ (/\ nb >= 2 /\ na >= 2
                    /\ Cardinality(B) = 1 /\ Cardinality(A) = 1
                    /\ B # A) => IsInf(t)
                /\ (/\ nb >= 2 /\ na >= 2
                    /\ (Cardinality(B) > 1 \/ Cardinality(A) > 1)) => IsFinite(t)
                /\ IsNaN(p) <=> IsNaN(t)

C8_Witness ==
    /\ e_pc = "returned"
    /\ Len(e_cps) = 2
    /\ e_cps[1] = 0
    /\ e_cps[2] = len(e_series) - 1
    /\ IsNaN(e_scores[1][1])
    /\ IsFinite(e_scores[2][1])

----------------------------------------------------------------------------
(* Claims about analyze_changepoints, generate_summary and main *)

\* the changepoints detect_changepoints finds in each loaded series
DetectedAll ==
    [n \in 1..Len(Val(series_data)) |->
        detect_changepoints(Val(series_data)[n], DefaultNChangepoints)]

\* the number of changepoints in the series before the n-th
RECURSIVE Offset(_, _)
Offset(dets, n) == IF n <= 1 THEN 0 ELSE Offset(dets, n - 1) + Len(dets[n - 1])

\* C3: when analyze_changepoints returns, results holds one record per
\* detected changepoint of every series, in series order and then changepoint
\* order; the record of the j-th changepoint cp of the n-th series (both
\* counted from 1) has Series = 'p<n>', Changepoint = j, Time = time[cp] and
\* CO2_Concentration = series[cp].
C3_Records ==
    pc = "save_results" =>
        LET sd == Val(series_data)
            tm == Val(time)
            recs == Val(results)
            dets == DetectedAll
        IN  /\ Len(recs) = Offset(dets, Len(sd) + 1)
            /\ \A n \in 1..Len(sd) :
                LET off == Offset(dets, n)
                IN  \A j \in 1..Len(dets[n]) :
                        LET r == recs[off + j]
                            cp == dets[n][j]
                        IN  /\ r.Series = <<112>> \o Decimal(n)
                            /\ r.Changepoint = j
                            /\ r.Time = Rat(tm[cp], 1)
                            /\ r.CO2_Concentration = Rat(sd[n][cp], 1)

C3_Witness ==
    /\ pc = "save_results"
    /\ Len(Val(results)) >= 3
    /\ Val(results)[1].Changepoint = 1
    /\ Val(results)[2].Changepoint = 2
    /\ Val(results)[3].Changepoint = 1
    /\ Val(results)[1].Series = Val(results)[2].Series
    /\ Val(results)[3].Series # Val(results)[2].Series

\* the position of the first record of a series label
FirstRecord(key) ==
    CHOOSE r \in 1..Len(Val(results)) :
        /\ Val(results)[r].Series = key
        /\ \A q \in 1..(r - 1) : Val(results)[q].Series # key

\* C4: the rows of the summary, one per series label, are in the input order
\* of the series, the order in which the labels appear in the records.
C4_InputOrder ==
    summary # None =>
        LET rows == Val(summary)
        IN  /\ {rows[i].Series : i \in 1..Len(rows)} = Keys(Val(results))
            /\ \A i \in 1..(Len(rows) - 1) :
                   FirstRecord(rows[i].Series) < FirstRecord(rows[i + 1].Series)

C6_SingleRecordGroup ==
    summary # None =>
        \A i \in 1..Len(Val(summary)) :
            LET row == Val(summary)[i]
                g == SelectSeq(Val(results), LAMBDA r : r.Series = row.Series)
            IN  Len(g) = 1 =>
                    /\ IsNaN(row.Time_std)
                    /\ IsNaN(row.CO2_Concentration_std)
                    /\ IsNaN(row.t_statistic_std)
                    /\ IsNaN(row.p_value_std)
                    /\ row.Time_mean = g[1].Time
                    /\ row.CO2_Concentration_mean = g[1].CO2_Concentration
                    /\ row.t_statistic_mean = g[1].t_statistic
                    /\ row.p_value_mean = g[1].p_value

C6_Witness ==
    /\ summary # None
    /\ \E i \in 1..Len(Val(summary)) :
        /\ Len(Group(Val(results), Val(summary)[i].Series)) = 1
        /\ IsNaN(Val(summary)[i].Time_std)
        /\ IsFinite(Val(summary)[i].t_statistic_mean)
    /\ \E i \in 1..Len(Val(summary)) :
        /\ Len(Group(Val(results), Val(summary)[i].Series)) = 2
        /\ ~IsNaN(Val(summary)[i].Time_std)

\* C9 as stated: the stages run load, detect, test, summarize, plot,
\* persist: nothing is rendered or written to the results directory before
\* the summary is generated.
C9_OutputsAfterSummary ==
    artifacts # <<>> => summary # None

AllArtifacts ==
    <<"all_series_plot.png", "changepoint_results.csv",
      "changepoint_detection_results.png", "changepoint_summary.csv">>

\* C9 amended: every run of main executes its stages in one fixed order,
\* load, overview figure, detect and test, record CSV, detect again, grid
\* figure, summarize, summary CSV: the overview figure is written after
\* loading and before any detection, the record CSV after all detection and
\* evaluation, the grid figure after the record CSV and the recomputation,
\* the summary after the grid figure, and the summary CSV last.
C9_StageOrder ==
    /\ artifacts = SubSeq(AllArtifacts, 1, Len(artifacts))
    /\ Len(artifacts) >= 1 => time # None /\ series_data # None
    /\ Len(artifacts) >= 2 => results # None
    /\ Len(artifacts) >= 3 => all_changepoints # None
    /\ Len(artifacts) >= 4 => summary # None
    /\ series_data # None => time # None
    /\ results # None => Len(artifacts) >= 1
    /\ all_changepoints # None => Len(artifacts) >= 2
    /\ summary # None => Len(artifacts) >= 3
    /\ pc = "done" => artifacts = AllArtifacts

C9_Witness ==
    /\ pc = "done"
    /\ artifacts = AllArtifacts
    /\ summary # None

\* C10: a failure raised by loading, detection or summarization is not
\* caught or retried: the run ends at that stage, nothing of a later stage
\* is computed and no artifact of a later stage is written.
C10_FailureEndsRun ==
    /\ ~input_file.exists =>
        /\ pc \in {"makedirs", "load_data", "failed"}
        /\ time = None /\ series_data = None /\ results = None
        /\ all_changepoints = None /\ summary = None
        /\ artifacts = <<>>
    /\ (series_data # None /\ AnalyzeRaises(Val(series_data))) =>
        /\ pc \in {"plot_all_series", "analyze_changepoints", "failed"}
        /\ results = None /\ all_changepoints = None /\ summary = None
        /\ Len(artifacts) <= 1
    /\ (results # None /\ SummaryRaises(Val(results))) =>
        /\ pc \notin {"save_summary", "print_summary", "done"}
        /\ summary = None
        /\ Len(artifacts) <= 3
    /\ pc = "failed" <=> failed_at # ""
    /\ pc = "failed" =>
        /\ ~ENABLED Next
        /\ failed_at = "load_data" => ~input_file.exists
        /\ failed_at = "analyze_changepoints" =>
               AnalyzeRaises(Val(series_data)) /\ Len(artifacts) = 1
        /\ failed_at = "generate_summary" =>
               SummaryRaises(Val(results)) /\ Len(artifacts) = 3
        /\ failed_at \in {"load_data", "analyze_changepoints", "generate_summary"}

C10_Witness ==
    /\ pc = "failed"
    /\ failed_at = "analyze_changepoints"
    /\ artifacts = <<"all_series_plot.png">>
    /\ results = None

====
